---- MODULE Spec2Model ----
(***************************************************************************)
(* State-machine model of the two request handlers of the document         *)
(* service:                                                                *)
(*   app/api/workflow.py   POST /process-document  (process_document_fully)*)
(*   app/api/summaries.py  GET  /summaries         (get_summary)           *)
(* and of the process-wide mapping DOCUMENT_LAST_RESULT that get_summary    *)
(* reads.  The OCR, summarization and embedding services are external      *)
(* collaborators: each call returns a value drawn from a small set or      *)
(* raises.                                                                 *)
(*                                                                         *)
(* process_document_fully is an `async def` without any await, so the      *)
(* event loop runs one invocation at a time; get_summary is a plain `def`  *)
(* and runs in a worker thread, so its steps interleave with the steps of  *)
(* the workflow handler.  get_summary writes no shared state, hence one    *)
(* in-flight summary request stands for all of them.                       *)
(***************************************************************************)
EXTENDS Integers, Sequences, FiniteSets, TLC

VARIABLES
    apiKey,      \* os.environ["OPENAI_API_KEY"] (None when unset)
    cache,       \* DOCUMENT_LAST_RESULT: document_id -> result dict
    files,       \* paths of the temp files that exist on disk
    uuidCount,   \* number of uuid.uuid4() calls made so far
    wf,          \* the workflow invocation in flight (locals, position)
    sm,          \* the summary invocation in flight (locals, position)
    successLog   \* history: <<document_id, full_text>> of every successful
                 \* workflow invocation, in order

vars == <<apiKey, cache, files, uuidCount, wf, sm, successLog>>

(***************************************************************************)
(* Bounds                                                                  *)
(***************************************************************************)
MaxUuid == 4     \* cap on the number of uuid4() calls (2 per full upload)

(***************************************************************************)
(* Python values                                                           *)
(***************************************************************************)
None == "<None>"                       \* Python's None for optional strings

Truthy(s) == s # None /\ s # ""        \* truth value of an Optional[str]

EmptyDict == [k \in {} |-> None]       \* {}

DictTruthy(d) == DOMAIN d # {}         \* truth value of a dict

DictGet(d, k, default) == IF k \in DOMAIN d THEN d[k] ELSE default

Ch(s, i) == SubSeq(s, i, i)

\* e occurs in s as a substring
Contains(s, e) ==
    \E i \in 1..(Len(s) - Len(e) + 1) : SubSeq(s, i, i + Len(e) - 1) = e

Whitespace == {" ", "\t", "\n"}

\* len(s.split()): the number of maximal runs of non-whitespace characters
WordCount(s) ==
    Cardinality({i \in 1..Len(s) :
                    /\ Ch(s, i) \notin Whitespace
                    /\ (i = 1 \/ Ch(s, i - 1) \in Whitespace)})

(***************************************************************************)
(* Input and collaborator domains                                          *)
(***************************************************************************)
ApiKeys == {None, "", "sk-test"}

Filenames == {"a.pdf"}

Texts == {"T1", "T2 and more"}

\* what ocr_processor.process_document can return: "text" missing, empty or
\* set, with the per-page records that go with it
PageDetails(t) == <<[text |-> t, page_number |-> 1]>>

OcrResults ==
    {[page_details |-> <<>>]}
    \cup {[text |-> "", page_details |-> <<>>]}
    \cup {[text |-> t, page_details |-> PageDetails(t)] : t \in Texts}

Summaries == {"A short summary."}

BuildErrors == {"disk full", "no chunks"}

\* what embedder.build_index can return
BuildResults ==
    {[error |-> e] : e \in BuildErrors} \cup {[status |-> "success"]}

\* caller-chosen document identifiers (path and query parameters)
DocIds == {"d1", "d2"}

SummaryTypes == {"short", "detailed"}

(***************************************************************************)
(* uuid.uuid4().hex: a value that no earlier call returned                 *)
(***************************************************************************)
\* variant: the same value on every call
Uuid4HexRepeated(n) == "u1"

Uuid4Hex(n) == "u" \o ToString(n + 1)

\* workflow.py line 39
TempFilePath(hex, filename) == "temp_" \o hex \o "_" \o filename

(***************************************************************************)
(* Responses                                                               *)
(***************************************************************************)
NoResponse == [status |-> 0, body |-> [detail |-> ""]]

\* an exception that no handler catches: the framework answers 500
HTTPException(status_code, detail) ==
    [status |-> status_code, body |-> [detail |-> detail]]

InternalServerError == HTTPException(500, "Internal Server Error")

\* workflow.py line 51
ExtractionFailedDetail == "Failed to extract text from document."

\* variant: the detail leaves the underlying error out
BuildErrorDetailGeneric(e) == "Failed to build index"

\* workflow.py line 65
BuildErrorDetail(e) == "Failed to build index: " \o e

\* workflow.py line 68
FaissIndexPath == "embeddings/document_index.faiss"

\* workflow.py lines 73-78
WorkflowBody(filename, summary) ==
    [success |-> TRUE, filename |-> filename, summary |-> summary,
     faiss_index_path |-> FaissIndexPath]

(***************************************************************************)
(* DOCUMENT_LAST_RESULT (app/api/processing.py): written by the endpoint    *)
(* POST /api/process/{document_id} that get_summary's error message names.  *)
(***************************************************************************)
\* put(id, result): inserts or overwrites, nothing else
CachePut(c, id, result) ==
    [k \in DOMAIN c \cup {id} |-> IF k = id THEN result ELSE c[k]]

\* a fully constructed result: text, page records, summary, index descriptor
ProcessingResult(text, page_details, summary) ==
    [text |-> text, page_details |-> page_details, summary |-> summary,
     index |-> [success |-> TRUE, path |-> FaissIndexPath]]

\* the results get_summary is written to cope with (lines 32-33): a full
\* result, one whose text is empty, and one without a "text" key
StoredResults ==
    {ProcessingResult(t, PageDetails(t), "summary") : t \in Texts \cup {""}}
    \cup {[summary |-> "summary"]}

(***************************************************************************)
(* POST /process-document                                                  *)
(***************************************************************************)
\* parsed_data holds the OCR result once line 46 has assigned it; called: the
\* collaborator methods the invocation has called; wrote: the invocation
\* changed DOCUMENT_LAST_RESULT
IdleWf ==
    [pc |-> "idle", filename |-> None, temp_file_path |-> None,
     parsed_data |-> {}, full_text |-> None, page_details |-> <<>>, summary |-> None,
     document_id |-> None, build_result |-> EmptyDict, called |-> {},
     response |-> NoResponse, wrote |-> FALSE]

\* variant: `if full_text is None`
NoTextExtractedNoneOnly(full_text) == full_text = None

\* workflow.py line 50: `if not full_text`
NoTextExtracted(full_text) == ~Truthy(full_text)

\* workflow.py line 64: `if 'error' in build_result`
BuildFailed(build_result) == "error" \in DOMAIN build_result

\* variant: the handler stores its result under the identifier it generated
CacheWrittenByWorkflow(c, document_id, full_text, page_details, summary) ==
    CachePut(c, document_id, ProcessingResult(full_text, page_details, summary))

\* workflow.py lines 66-78: between the index build and the return the handler
\* touches no mapping; DOCUMENT_LAST_RESULT is neither imported nor written
CacheAfterWorkflow(c, document_id, full_text, page_details, summary) == c

\* variant: nothing is removed
CleanupSkipped(fs, temp_file_path) == fs

\* workflow.py lines 79-81: the finally block
Cleanup(fs, temp_file_path) ==
    IF temp_file_path \in fs THEN fs \ {temp_file_path} ELSE fs

\* an exception leaves the try block
Raise(w, response) == [w EXCEPT !.pc = "finally", !.response = response]

\* workflow.py lines 21-23: the module only loads when the key is set
WorkflowLoaded == Truthy(apiKey)

\* line 39: the request arrives, the temp path is computed
WfReceive(filename) ==
    /\ WorkflowLoaded
    /\ wf.pc = "idle"
    /\ uuidCount + 2 <= MaxUuid
    /\ wf' = [IdleWf EXCEPT !.pc = "open", !.filename = filename,
                 !.temp_file_path = TempFilePath(Uuid4Hex(uuidCount), filename)]
    /\ uuidCount' = uuidCount + 1
    /\ UNCHANGED <<apiKey, cache, files, sm, successLog>>

\* line 41: open(temp_file_path, "wb") creates the file, or raises
WfOpen ==
    /\ wf.pc = "open"
    /\ \/ /\ files' = files \cup {wf.temp_file_path}
          /\ wf' = [wf EXCEPT !.pc = "copy"]
       \/ /\ files' = files
          /\ wf' = Raise(wf, InternalServerError)
    /\ UNCHANGED <<apiKey, cache, uuidCount, sm, successLog>>

\* line 42: shutil.copyfileobj, or raises
WfCopy ==
    /\ wf.pc = "copy"
    /\ \/ wf' = [wf EXCEPT !.pc = "ocr"]
       \/ wf' = Raise(wf, InternalServerError)
    /\ UNCHANGED <<apiKey, cache, files, uuidCount, sm, successLog>>

\* lines 46-51: OCR and the check of its text
WfOcr ==
    /\ wf.pc = "ocr"
    /\ LET w == [wf EXCEPT !.called = @ \cup {"ocr"}] IN
       \/ \E parsed_data \in OcrResults :
            LET full_text == DictGet(parsed_data, "text", None)
                page_details == DictGet(parsed_data, "page_details", <<>>)
                got == [w EXCEPT !.parsed_data = {parsed_data},
                                 !.full_text = full_text,
                                 !.page_details = page_details]
            IN wf' = IF NoTextExtracted(full_text)
                     THEN Raise(got, HTTPException(400, ExtractionFailedDetail))
                     ELSE [got EXCEPT !.pc = "summarize"]
       \/ wf' = Raise(w, InternalServerError)
    /\ UNCHANGED <<apiKey, cache, files, uuidCount, sm, successLog>>

\* line 55: summarizer.summarize_document(full_text, 'general')
WfSummarize ==
    /\ wf.pc = "summarize"
    /\ LET w == [wf EXCEPT !.called = @ \cup {"summarize"}] IN
       \/ \E summary \in Summaries :
            wf' = [w EXCEPT !.summary = summary, !.pc = "index"]
       \/ wf' = Raise(w, InternalServerError)
    /\ UNCHANGED <<apiKey, cache, files, uuidCount, sm, successLog>>

\* lines 59-61: the document identifier, then the chunking
WfIndex ==
    /\ wf.pc = "index"
    /\ uuidCount' = uuidCount + 1
    /\ LET w == [wf EXCEPT !.document_id = Uuid4Hex(uuidCount),
                           !.called = @ \cup {"chunk"}] IN
       \/ wf' = [w EXCEPT !.pc = "build"]
       \/ wf' = Raise(w, InternalServerError)
    /\ UNCHANGED <<apiKey, cache, files, sm, successLog>>

\* lines 62-78: the index build, its check, and the return value
WfBuild ==
    /\ wf.pc = "build"
    /\ LET w == [wf EXCEPT !.called = @ \cup {"build_index"}] IN
       \/ \E build_result \in BuildResults :
            LET got == [w EXCEPT !.build_result = build_result]
                after == CacheAfterWorkflow(cache, wf.document_id, wf.full_text,
                                            wf.page_details, wf.summary)
            IN IF BuildFailed(build_result)
               THEN /\ wf' = Raise(got, HTTPException(500,
                                      BuildErrorDetail(build_result["error"])))
                    /\ cache' = cache
               ELSE /\ wf' = [got EXCEPT
                                !.pc = "finally",
                                !.wrote = (after # cache),
                                !.response = [status |-> 200,
                                    body |-> WorkflowBody(wf.filename, wf.summary)]]
                    /\ cache' = after
       \/ /\ wf' = Raise(w, InternalServerError)
          /\ cache' = cache
    /\ UNCHANGED <<apiKey, files, uuidCount, sm, successLog>>

\* lines 79-81: the finally block runs on every way out of the try block
WfFinally ==
    /\ wf.pc = "finally"
    /\ files' = Cleanup(files, wf.temp_file_path)
    /\ wf' = [wf EXCEPT !.pc = "done"]
    /\ successLog' = IF wf.response.status = 200
                     THEN Append(successLog, <<wf.document_id, wf.full_text>>)
                     ELSE successLog
    /\ UNCHANGED <<apiKey, cache, uuidCount, sm>>

\* the response is sent and the invocation's locals are gone
WfRespond ==
    /\ wf.pc = "done"
    /\ wf' = IdleWf
    /\ UNCHANGED <<apiKey, cache, files, uuidCount, sm, successLog>>

(***************************************************************************)
(* POST /api/process/{document_id}                                         *)
(***************************************************************************)
ProcessDocument(document_id, result) ==
    /\ cache' = CachePut(cache, document_id, result)
    /\ UNCHANGED <<apiKey, files, uuidCount, wf, sm, successLog>>

(***************************************************************************)
(* GET /summaries                                                          *)
(***************************************************************************)
IdleSm ==
    [pc |-> "idle", type |-> None, document_id |-> None, text |-> None,
     cache_read |-> FALSE, invoked |-> FALSE, source_text |-> None,
     response |-> NoResponse]

\* summaries.py line 24
MissingKeyMsg == "Missing OPENAI_API_KEY"

\* summaries.py line 35
NotProcessedMsg(document_id) ==
    "Document " \o document_id
    \o " not processed yet. Please process the document first using POST /api/process/"
    \o document_id

\* summaries.py line 38
NoTextMsg ==
    "No text provided. Either provide 'text' parameter or ensure document is processed with 'document_id'"

ErrorPayload(msg) == [status |-> 200, body |-> [error |-> msg]]

\* summaries.py line 41
SummaryPayload(summary) ==
    [status |-> 200,
     body |-> [summary |-> summary, word_count |-> WordCount(summary),
               status |-> "success"]]

\* variant: `if api_key is None`
HasSummarizerNoneOnly(api_key) == api_key # None

\* summaries.py lines 11-17: is a summarizer built?
HasSummarizer(api_key) == Truthy(api_key)

\* variant: `if document_id`
ConsultsCacheAlways(document_id, text) == Truthy(document_id)

\* summaries.py line 28: `if document_id and not text`
ConsultsCache(document_id, text) == Truthy(document_id) /\ ~Truthy(text)

\* summaries.py lines 31-32: DOCUMENT_LAST_RESULT.get(document_id), truthy
Found(c, document_id) ==
    document_id \in DOMAIN c /\ DictTruthy(c[document_id])

\* variant: line 33 reads the cached summary instead of the cached text
ResolveSourceFromSummary(c, document_id, text) ==
    LET source_text ==
            IF ConsultsCache(document_id, text) /\ Found(c, document_id)
            THEN DictGet(c[document_id], "summary", "")
            ELSE IF Truthy(text) THEN text ELSE ""
    IN IF ConsultsCache(document_id, text) /\ ~Found(c, document_id)
       THEN [ok |-> FALSE, error |-> NotProcessedMsg(document_id),
             source_text |-> None]
       ELSE IF ~Truthy(source_text)
       THEN [ok |-> FALSE, error |-> NoTextMsg, source_text |-> None]
       ELSE [ok |-> TRUE, error |-> None, source_text |-> source_text]

\* variant: no else branch at lines 34-35, a miss falls through to line 37
ResolveSourceNoEarlyReturn(c, document_id, text) ==
    LET source_text ==
            IF ConsultsCache(document_id, text) /\ Found(c, document_id)
            THEN DictGet(c[document_id], "text", "")
            ELSE IF Truthy(text) THEN text ELSE ""
    IN IF ~Truthy(source_text)
       THEN [ok |-> FALSE, error |-> NoTextMsg, source_text |-> None]
       ELSE [ok |-> TRUE, error |-> None, source_text |-> source_text]

\* variant: no check of the source text at lines 37-38
ResolveSourceNoEmptyCheck(c, document_id, text) ==
    LET source_text ==
            IF ConsultsCache(document_id, text) /\ Found(c, document_id)
            THEN DictGet(c[document_id], "text", "")
            ELSE IF Truthy(text) THEN text ELSE ""
    IN IF ConsultsCache(document_id, text) /\ ~Found(c, document_id)
       THEN [ok |-> FALSE, error |-> NotProcessedMsg(document_id),
             source_text |-> None]
       ELSE [ok |-> TRUE, error |-> None, source_text |-> source_text]

\* summaries.py lines 27-38: the source text, or the error to answer with
ResolveSource(c, document_id, text) ==
    LET source_text ==
            IF ConsultsCache(document_id, text) /\ Found(c, document_id)
            THEN DictGet(c[document_id], "text", "")
            ELSE IF Truthy(text) THEN text ELSE ""
    IN IF ConsultsCache(document_id, text) /\ ~Found(c, document_id)
       THEN [ok |-> FALSE, error |-> NotProcessedMsg(document_id),
             source_text |-> None]
       ELSE IF ~Truthy(source_text)
       THEN [ok |-> FALSE, error |-> NoTextMsg, source_text |-> None]
       ELSE [ok |-> TRUE, error |-> None, source_text |-> source_text]

QueryTexts == {None, "", "Hello world"}

\* document_id values a caller can send: none, empty, its own identifiers
\* and the identifiers the workflow endpoint generated
QueryDocIds ==
    {None, ""} \cup DocIds \cup {successLog[i][1] : i \in DOMAIN successLog}

SmReceive(type, document_id, text) ==
    /\ sm.pc = "idle"
    /\ sm' = [IdleSm EXCEPT !.pc = "get_summarizer", !.type = type,
                            !.document_id = document_id, !.text = text]
    /\ UNCHANGED <<apiKey, cache, files, uuidCount, wf, successLog>>

\* lines 22-24
SmGetSummarizer ==
    /\ sm.pc = "get_summarizer"
    /\ sm' = IF HasSummarizer(apiKey)
             THEN [sm EXCEPT !.pc = "resolve"]
             ELSE [sm EXCEPT !.pc = "done", !.response = ErrorPayload(MissingKeyMsg)]
    /\ UNCHANGED <<apiKey, cache, files, uuidCount, wf, successLog>>

\* lines 27-40: the source text is resolved and the summarizer is called
SmResolve ==
    /\ sm.pc = "resolve"
    /\ LET r == ResolveSource(cache, sm.document_id, sm.text)
           s == [sm EXCEPT !.cache_read = ConsultsCache(sm.document_id, sm.text)]
       IN sm' = IF r.ok
                THEN [s EXCEPT !.pc = "summarizing", !.invoked = TRUE,
                               !.source_text = r.source_text]
                ELSE [s EXCEPT !.pc = "done", !.response = ErrorPayload(r.error)]
    /\ UNCHANGED <<apiKey, cache, files, uuidCount, wf, successLog>>

\* lines 40-41: the summarizer returns, or raises
SmSummarized ==
    /\ sm.pc = "summarizing"
    /\ \/ \E summary \in Summaries :
            sm' = [sm EXCEPT !.pc = "done", !.response = SummaryPayload(summary)]
       \/ sm' = [sm EXCEPT !.pc = "done", !.response = InternalServerError]
    /\ UNCHANGED <<apiKey, cache, files, uuidCount, wf, successLog>>

SmRespond ==
    /\ sm.pc = "done"
    /\ sm' = IdleSm
    /\ UNCHANGED <<apiKey, cache, files, uuidCount, wf, successLog>>

(***************************************************************************)
(* The specification                                                       *)
(***************************************************************************)
Init ==
    /\ apiKey \in ApiKeys
    /\ cache = EmptyDict
    /\ files = {}
    /\ uuidCount = 0
    /\ wf = IdleWf
    /\ sm = IdleSm
    /\ successLog = <<>>

Next ==
    \/ \E filename \in Filenames : WfReceive(filename)
    \/ WfOpen
    \/ WfCopy
    \/ WfOcr
    \/ WfSummarize
    \/ WfIndex
    \/ WfBuild
    \/ WfFinally
    \/ WfRespond
    \/ \E document_id \in DocIds, result \in StoredResults :
            ProcessDocument(document_id, result)
    \/ \E type \in SummaryTypes, document_id \in QueryDocIds, text \in QueryTexts :
            SmReceive(type, document_id, text)
    \/ SmGetSummarizer
    \/ SmResolve
    \/ SmSummarized
    \/ SmRespond

Spec == Init /\ [][Next]_vars

(***************************************************************************)
(* Properties                                                              *)
(***************************************************************************)
LogIds == {successLog[i][1] : i \in DOMAIN successLog}

\* the workflow invocation has left the try block (its result is decided)
WfEnded == wf.pc \in {"finally", "done"}

WfSucceeded == WfEnded /\ wf.response.status = 200

\* the step in which get_summary resolves its source text (lines 27-40)
SmResolves == sm.pc = "resolve" /\ sm'.pc # "resolve"

\* the cached text a lookup of document_id yields ("" when there is none)
CachedText(document_id) ==
    IF document_id \in DOMAIN cache
    THEN DictGet(cache[document_id], "text", "")
    ELSE ""

FullyConstructed(result) ==
    {"text", "page_details", "summary", "index"} \subseteq DOMAIN result

IsError(response, part) ==
    /\ response.status = 200
    /\ DOMAIN response.body = {"error"}
    /\ Contains(response.body.error, part)

C2_TempFileRemoved ==
    /\ wf.pc = "done" => wf.temp_file_path \notin files
    /\ wf.pc = "idle" => files = {}

\* a terminal state of an invocation that failed after the file was created
C2_Witness ==
    /\ wf.pc = "done"
    /\ wf.response.status = 500
    /\ "build_index" \in wf.called

\* C3: when OCR returns no text (missing or empty), the invocation fails with
\* a 400, calls neither the summarizer nor the embedder and generates no
\* identifier; no step of an invocation that has not got past the OCR check
\* changes the cache.
C3_NoTextIs400 ==
    /\ [](\A parsed_data \in wf.parsed_data :
            ~Truthy(DictGet(parsed_data, "text", None))
                => /\ WfEnded
                   /\ wf.response.status = 400
                   /\ wf.called = {"ocr"}
                   /\ wf.document_id = None
                   /\ ~wf.wrote)
    /\ [][(wf' # wf /\ wf.full_text \notin Texts /\ wf'.full_text \notin Texts)
              => cache' = cache]_vars

C3_Witness ==
    /\ wf.pc = "done"
    /\ wf.response.status = 400
    /\ wf.full_text = ""

\* C4: when build_index returns an error marker with message E, the
\* invocation fails with a 500 whose detail contains E, and the cache gets no
\* entry for the attempt: the step that receives the error and the steps
\* after it leave the cache unchanged.
C4_BuildErrorIs500 ==
    /\ []("error" \in DOMAIN wf.build_result
            => /\ WfEnded
               /\ wf.response.status = 500
               /\ Contains(wf.response.body.detail, wf.build_result["error"])
               /\ ~wf.wrote
               /\ wf.document_id \notin DOMAIN cache)
    /\ [][(/\ wf' # wf
           /\ "error" \in (DOMAIN wf.build_result \cup DOMAIN wf'.build_result))
          => cache' = cache]_vars

C4_Witness ==
    /\ wf.pc = "done"
    /\ "error" \in DOMAIN wf.build_result
    /\ wf.build_result["error"] = "disk full"

\* C5: without a credential (unset or empty) every summary call answers
\* {error: "Missing OPENAI_API_KEY"}, reads no cache entry and does not call
\* the summarizer.
C5_MissingKey ==
    ~Truthy(apiKey)
        => /\ ~sm.invoked
           /\ ~sm.cache_read
           /\ sm.pc \in {"idle", "get_summarizer", "done"}
           /\ sm.pc = "done" => sm.response = [status |-> 200,
                                  body |-> [error |-> "Missing OPENAI_API_KEY"]]

C5_Witness ==
    /\ ~Truthy(apiKey)
    /\ sm.pc = "done"
    /\ sm.document_id \in DOMAIN cache
    /\ sm.text = None

\* C6: a call with a (non-empty) text parameter calls the summarizer with
\* exactly that text and does not consult the cache, whatever document_id is.
C6_TextTakesPrecedence ==
    (Truthy(apiKey) /\ Truthy(sm.text) /\ sm.pc \in {"summarizing", "done"})
        => /\ sm.invoked
           /\ sm.source_text = sm.text
           /\ ~sm.cache_read

\* text is given together with an identifier cached with a different text
C6_Witness ==
    /\ sm.invoked
    /\ Truthy(sm.text)
    /\ Truthy(CachedText(sm.document_id))
    /\ CachedText(sm.document_id) # sm.text

\* C7: a call with no text and a document_id that has no cache entry answers
\* the "not processed yet" error naming the identifier, without calling the
\* summarizer.
C7_UnknownIdentifier ==
    [][(/\ SmResolves
        /\ ~Truthy(sm.text)
        /\ Truthy(sm.document_id)
        /\ sm.document_id \notin DOMAIN cache)
       => (/\ sm'.pc = "done"
           /\ ~sm'.invoked
           /\ IsError(sm'.response, "not processed yet")
           /\ IsError(sm'.response, "Document " \o sm.document_id \o " ")
           /\ IsError(sm'.response, "/api/process/" \o sm.document_id))]_vars

C7_Witness ==
    /\ sm.pc = "done"
    /\ sm.document_id \in LogIds
    /\ sm.cache_read
    /\ IsError(sm.response, "not processed yet")

\* C8: the summarizer is never called with empty source text; when neither
\* the text parameter nor the cached entry of document_id yields non-empty
\* text the call answers the "No text provided" error.
C8_NoEmptySource ==
    /\ [](sm.invoked => Truthy(sm.source_text))
    /\ [][(/\ SmResolves
           /\ ~Truthy(sm.text)
           /\ (Truthy(sm.document_id) => sm.document_id \in DOMAIN cache)
           /\ (Truthy(sm.document_id) => ~Truthy(CachedText(sm.document_id))))
          => (/\ sm'.pc = "done"
              /\ ~sm'.invoked
              /\ IsError(sm'.response, "No text provided"))]_vars

\* the usage error for an entry that is cached without a "text" key
C8_Witness ==
    /\ sm.pc = "done"
    /\ sm.cache_read
    /\ sm.document_id \in DOMAIN cache
    /\ "text" \notin DOMAIN cache[sm.document_id]
    /\ IsError(sm.response, "No text provided")

====
